---- MODULE Spec2Model ----
(***************************************************************************)
(* Config flow of the Universal Devices ISY994 integration                 *)
(* (homeassistant/components/isy994/config_flow.py).                       *)
(*                                                                         *)
(* Text is modelled as a sequence of one-character strings, a Python dict  *)
(* as a function whose DOMAIN is the set of keys present, and an optional  *)
(* value as the empty sequence (None) or a one-element sequence.           *)
(***************************************************************************)
EXTENDS Integers, Sequences, FiniteSets, TLC

(***************************************************************************)
(* Bounds of the model.                                                    *)
(***************************************************************************)
NumFlows == 2

(***************************************************************************)
(* Generic text and dict helpers.                                          *)
(***************************************************************************)
None == <<>>

Some(v) == <<v>>

EmptyDict == [k \in {} |-> <<>>]

\* dict.get(key, default)
Get(d, k, default) == IF k \in DOMAIN d THEN d[k] ELSE default

\* str.find(c) for a single character, 1-based; 0 when absent
Find(s, c) ==
    IF \E i \in 1..Len(s) : s[i] = c
    THEN CHOOSE i \in 1..Len(s) : s[i] = c /\ \A j \in 1..(i - 1) : s[j] # c
    ELSE 0

\* index of the first character of s that belongs to cs; 0 when absent
FindAny(s, cs) ==
    IF \E i \in 1..Len(s) : s[i] \in cs
    THEN CHOOSE i \in 1..Len(s) : s[i] \in cs /\ \A j \in 1..(i - 1) : s[j] \notin cs
    ELSE 0

\* index of the last occurrence of c in s; 0 when absent
RFind(s, c) ==
    IF \E i \in 1..Len(s) : s[i] = c
    THEN CHOOSE i \in 1..Len(s) : s[i] = c /\ \A j \in (i + 1)..Len(s) : s[j] # c
    ELSE 0

\* s[i:] with a 0-based Python start index i
From(s, i) == IF i >= Len(s) THEN <<>> ELSE SubSeq(s, i + 1, Len(s))

\* s[:i] with a 0-based Python end index i
Upto(s, i) == IF i <= 0 THEN <<>> ELSE SubSeq(s, 1, IF i > Len(s) THEN Len(s) ELSE i)

\* str.startswith / str.endswith
StartsWith(s, p) == Len(s) >= Len(p) /\ SubSeq(s, 1, Len(p)) = p

EndsWith(s, p) == Len(s) >= Len(p) /\ SubSeq(s, Len(s) - Len(p) + 1, Len(s)) = p

UpperCase == <<"A", "B", "C", "D", "E", "F", "G", "H", "I", "J", "K", "L", "M",
               "N", "O", "P", "Q", "R", "S", "T", "U", "V", "W", "X", "Y", "Z">>

LowerCase == <<"a", "b", "c", "d", "e", "f", "g", "h", "i", "j", "k", "l", "m",
               "n", "o", "p", "q", "r", "s", "t", "u", "v", "w", "x", "y", "z">>

Digits == <<"0", "1", "2", "3", "4", "5", "6", "7", "8", "9">>

Range(s) == {s[i] : i \in 1..Len(s)}

LowerChar(c) ==
    IF c \in Range(UpperCase) THEN LowerCase[Find(UpperCase, c)] ELSE c

\* str.lower()
Lower(s) == [i \in 1..Len(s) |-> LowerChar(s[i])]

\* int(s) for a non-empty string of decimal digits
RECURSIVE ToInt(_)
ToInt(s) ==
    IF Len(s) = 0 THEN 0
    ELSE 10 * ToInt(SubSeq(s, 1, Len(s) - 1)) + (Find(Digits, s[Len(s)]) - 1)

(***************************************************************************)
(* urllib.parse.urlparse, for URLs without "[", "]" and "%": the scheme,   *)
(* the network location, the path, and the hostname and port properties.   *)
(***************************************************************************)
SchemeChars == Range(UpperCase) \cup Range(LowerCase) \cup Range(Digits) \cup {"+", "-", "."}

\* the scheme and the rest of the URL, given the position i of the first ":"
SplitScheme(url, i) ==
    IF /\ i > 1
       /\ url[1] \in Range(UpperCase) \cup Range(LowerCase)
       /\ \A j \in 1..(i - 1) : url[j] \in SchemeChars
    THEN [scheme |-> Lower(Upto(url, i - 1)), rest |-> From(url, i)]
    ELSE [scheme |-> <<>>, rest |-> url]

\* urllib.parse._splitnetloc, given the position delim of the first of "/?#"
SplitNetloc(after, delim) ==
    IF delim = 0 THEN [netloc |-> after, tail |-> <<>>]
    ELSE [netloc |-> Upto(after, delim - 1), tail |-> From(after, delim - 1)]

NetlocAndTail(rest) ==
    IF Upto(rest, 2) = <<"/", "/">>
    THEN SplitNetloc(From(rest, 2), FindAny(From(rest, 2), {"/", "?", "#"}))
    ELSE [netloc |-> <<>>, tail |-> rest]

\* the path: the tail without its query and fragment
CutAt(tail, cut) == IF cut = 0 THEN tail ELSE Upto(tail, cut - 1)

PathOf(tail) == CutAt(tail, FindAny(tail, {"?", "#"}))

\* ParseResult._hostinfo: host and port text, given the position of the ":"
SplitHostPort(hostinfo, colon) ==
    IF colon = 0 THEN [host |-> hostinfo, port |-> <<>>]
    ELSE [host |-> Upto(hostinfo, colon - 1), port |-> From(hostinfo, colon)]

HostInfo(netloc) == From(netloc, RFind(netloc, "@"))

HostPort(netloc) == SplitHostPort(HostInfo(netloc), Find(HostInfo(netloc), ":"))

\* ParseResult.port accepts decimal digits denoting at most 65535
PortValid(port) ==
    /\ \A j \in 1..Len(port) : port[j] \in Range(Digits)
    /\ ToInt(port) <= 65535

ParseResult(scheme, netloc, path, hp) ==
    [scheme |-> scheme,
     netloc |-> netloc,
     path |-> path,
     hostname |-> IF hp.host = <<>> THEN None ELSE Some(Lower(hp.host)),
     port_raises |-> hp.port # <<>> /\ ~PortValid(hp.port),
     port |-> IF hp.port = <<>> \/ ~PortValid(hp.port) THEN None ELSE Some(ToInt(hp.port))]

UrlSplit(scheme, nt) == ParseResult(scheme, nt.netloc, PathOf(nt.tail), HostPort(nt.netloc))

UrlFromScheme(s) == UrlSplit(s.scheme, NetlocAndTail(s.rest))

urlparse(url) == UrlFromScheme(SplitScheme(url, Find(url, ":")))

(***************************************************************************)
(* Names imported from homeassistant.const, homeassistant.components.ssdp  *)
(* and .const.                                                             *)
(***************************************************************************)
CONF_HOST == "host"

CONF_NAME == "name"

CONF_USERNAME == "username"

CONF_PASSWORD == "password"

CONF_TLS_VER == "tls"

ATTR_UPNP_FRIENDLY_NAME == "friendlyName"

ATTR_SSDP_LOCATION == "ssdp_location"

ATTR_UPNP_UDN == "UDN"

UDN_UUID_PREFIX == <<"u", "u", "i", "d", ":">>

ISY_URL_POSTFIX == <<"/", "d", "e", "s", "c">>

(***************************************************************************)
(* _data_schema: the form's schema; the host field defaults to the host of *)
(* schema_input ("" when absent), three fields are required.               *)
(***************************************************************************)
_data_schema(schema_input) ==
    [host_default |-> Get(schema_input, CONF_HOST, <<>>),
     required |-> {CONF_HOST, CONF_USERNAME, CONF_PASSWORD}]

(***************************************************************************)
(* validate_input up to the dispatch of the executor job (lines 51-76).    *)
(* raises = "" means the job is dispatched with the arguments in args.     *)
(***************************************************************************)
NoArgs ==
    [address |-> None, port |-> 0, username |-> <<>>, password |-> <<>>,
     use_https |-> FALSE, tls_ver |-> None, webroot |-> <<>>]

\* faulty variant: only an absent port is replaced by the default
PortOr_none_only(port, default) == IF port = None THEN default ELSE port[1]

\* Python's "port or default": the default replaces None and 0
PortOr(port, default) == IF port = None THEN default
                         ELSE IF port[1] = 0 THEN default ELSE port[1]

FetchArgs(data, host, https, default_port) ==
    [address |-> host.hostname,
     port |-> PortOr(host.port, default_port),
     username |-> data[CONF_USERNAME],
     password |-> data[CONF_PASSWORD],
     use_https |-> https,
     tls_ver |-> IF CONF_TLS_VER \in DOMAIN data THEN Some(data[CONF_TLS_VER]) ELSE None,
     webroot |-> host.path]

\* faulty variant: an unrecognized scheme is treated as https instead of
\* raising InvalidHost
validate_input_host_no_scheme_check(data, host) ==
    IF host.port_raises THEN [raises |-> "ValueError", args |-> NoArgs]
    ELSE IF host.scheme = <<"h", "t", "t", "p">>
    THEN [raises |-> "", args |-> FetchArgs(data, host, FALSE, 80)]
    ELSE [raises |-> "", args |-> FetchArgs(data, host, TRUE, 443)]

\* lines 56-76, for the parsed host
validate_input_host(data, host) ==
    IF host.scheme = <<"h", "t", "t", "p">>
    THEN IF host.port_raises THEN [raises |-> "ValueError", args |-> NoArgs]
         ELSE [raises |-> "", args |-> FetchArgs(data, host, FALSE, 80)]
    ELSE IF host.scheme = <<"h", "t", "t", "p", "s">>
    THEN IF host.port_raises THEN [raises |-> "ValueError", args |-> NoArgs]
         ELSE [raises |-> "", args |-> FetchArgs(data, host, TRUE, 443)]
    ELSE [raises |-> "InvalidHost", args |-> NoArgs]

validate_input_begin(data) ==
    IF CONF_USERNAME \notin DOMAIN data THEN [raises |-> "KeyError", args |-> NoArgs]
    ELSE IF CONF_PASSWORD \notin DOMAIN data THEN [raises |-> "KeyError", args |-> NoArgs]
    ELSE IF CONF_HOST \notin DOMAIN data THEN [raises |-> "KeyError", args |-> NoArgs]
    ELSE validate_input_host(data, urlparse(data[CONF_HOST]))

(***************************************************************************)
(* _fetch_isy_configuration (lines 85-102), run by the executor.  lib is   *)
(* what the pyisy library does: the Connection constructor raises          *)
(* ValueError or another error, get_config/Configuration raises, or a      *)
(* Configuration (a dict) is returned.                                     *)
(***************************************************************************)
\* faulty variant: the Connection's ValueError is not wrapped in InvalidAuth
_fetch_isy_configuration_unwrapped(args, lib) ==
    IF lib.kind \in {"ValueError", "ConnectionError", "ConfigError"}
    THEN [raises |-> "Exception", conf |-> EmptyDict]
    ELSE [raises |-> "", conf |-> lib.conf]

_fetch_isy_configuration(args, lib) ==
    IF lib.kind = "ValueError" THEN [raises |-> "InvalidAuth", conf |-> EmptyDict]
    ELSE IF lib.kind \in {"ConnectionError", "ConfigError"}
    THEN [raises |-> "Exception", conf |-> EmptyDict]
    ELSE [raises |-> "", conf |-> lib.conf]

(***************************************************************************)
(* validate_input after the executor job completed (lines 67, 78-82).      *)
(***************************************************************************)
\* str() of an optional text, as an f-string renders it
Str(opt) == IF opt = None THEN <<"N", "o", "n", "e">> ELSE opt[1]

\* faulty variant: the title is the device name alone
Title_name_only(name, hostname) == name

Title(name, hostname) == name \o <<" ", "(">> \o Str(hostname) \o <<")">>

NoInfo == [title |-> <<>>, uuid |-> <<>>]

\* line 82: the info validate_input returns
Info(data, isy_conf) ==
    [title |-> Title(isy_conf["name"], urlparse(data[CONF_HOST]).hostname),
     uuid |-> isy_conf["uuid"]]

\* faulty variant: an empty name is accepted
validate_input_end_empty_name(data, fetched) ==
    IF fetched.raises # "" THEN [raises |-> fetched.raises, info |-> NoInfo]
    ELSE IF DOMAIN fetched.conf = {} \/ "name" \notin DOMAIN fetched.conf
    THEN [raises |-> "CannotConnect", info |-> NoInfo]
    ELSE IF "uuid" \notin DOMAIN fetched.conf
    THEN [raises |-> "KeyError", info |-> NoInfo]
    ELSE [raises |-> "", info |-> Info(data, fetched.conf)]

validate_input_end(data, fetched) ==
    IF fetched.raises # "" THEN [raises |-> fetched.raises, info |-> NoInfo]
    ELSE IF \/ DOMAIN fetched.conf = {}
            \/ "name" \notin DOMAIN fetched.conf
            \/ fetched.conf["name"] = <<>>
    THEN [raises |-> "CannotConnect", info |-> NoInfo]
    ELSE IF "uuid" \notin DOMAIN fetched.conf
    THEN [raises |-> "KeyError", info |-> NoInfo]
    ELSE [raises |-> "", info |-> Info(data, fetched.conf)]

(***************************************************************************)
(* Results a step returns to the flow manager (data_entry_flow).           *)
(***************************************************************************)
NoResult ==
    [type |-> "none", step_id |-> "", errors |-> EmptyDict, data_schema |-> _data_schema(EmptyDict),
     title |-> <<>>, data |-> EmptyDict, reason |-> ""]

async_show_form(step_id, data_schema, errors) ==
    [NoResult EXCEPT !.type = "form", !.step_id = step_id,
                     !.data_schema = data_schema, !.errors = errors]

async_create_entry(title, data) ==
    [NoResult EXCEPT !.type = "create_entry", !.title = title, !.data = data]

async_abort(reason) == [NoResult EXCEPT !.type = "abort", !.reason = reason]

(***************************************************************************)
(* State.                                                                  *)
(*   flow     one record per wizard instance (ConfigFlow object and the    *)
(*            flow manager's bookkeeping for it)                           *)
(*   entries  the persisted config entries of the domain, in creation      *)
(*            order                                                        *)
(*   options_flow  the options editor (OptionsFlowHandler object and the   *)
(*            flow manager's bookkeeping for it)                           *)
(***************************************************************************)
VARIABLES flow, entries, options_flow

vars == <<flow, entries, options_flow>>

Flows == 1..NumFlows

\* the executor job of line 67: its arguments, what the library did (lib)
\* and what _fetch_isy_configuration raised or returned
NoJob == [state |-> "none", args |-> NoArgs, lib |-> "", raises |-> "", conf |-> EmptyDict]

\* ConfigFlow.__init__ (lines 111-113): an instance with empty prefill state
NewFlow ==
    [pc |-> "init",
     source |-> "none",
     discovered_conf |-> EmptyDict,
     unique_id |-> None,
     title_placeholders |-> EmptyDict,
     discovery_info |-> EmptyDict,
     user_input |-> None,
     job |-> NoJob,
     fetches |-> 0,
     result |-> NoResult]

\* no options editor is open; config_entry is the position of the entry an
\* editor was created for (OptionsFlowHandler.__init__, lines 178-180)
NoOptionsFlow ==
    [pc |-> "none", config_entry |-> 0, user_input |-> None, result |-> NoResult]

\* ConfigFlow.async_set_unique_id: the identifier becomes the flow's unique id.
\* The user step passes raise_on_progress=False (line 139), the discovery
\* step leaves the default (line 163); the flow manager's handling of other
\* flows in progress is not part of this module.
async_set_unique_id(fl, unique_id) == [fl EXCEPT !.unique_id = Some(unique_id)]

\* the condition under which ConfigFlow._abort_if_unique_id_configured aborts:
\* a persisted entry carries the flow's unique id
Configured(es, unique_id) ==
    \E i \in 1..Len(es) : es[i].unique_id = unique_id

\* the entry the flow manager persists when a step returns create_entry
NewEntry(fl, result) ==
    [unique_id |-> fl.unique_id, title |-> result.title, data |-> result.data,
     options |-> EmptyDict]

(***************************************************************************)
(* async_step_user, lines 128-147: what the step does once validate_input  *)
(* has returned info or raised.  Yields the flow record and the entries.   *)
(***************************************************************************)
\* faulty variant: without the broad except clause's own kind
ErrorKind_no_unknown(raises) ==
    IF raises = "InvalidHost" THEN "invalid_host"
    ELSE IF raises = "InvalidAuth" THEN "invalid_auth"
    ELSE "cannot_connect"

ErrorKind(raises) ==
    IF raises = "CannotConnect" THEN "cannot_connect"
    ELSE IF raises = "InvalidHost" THEN "invalid_host"
    ELSE IF raises = "InvalidAuth" THEN "invalid_auth"
    ELSE "unknown"

\* lines 123, 128-136: the errors dict after the try statement
Errors(raises) ==
    IF raises = "" THEN EmptyDict ELSE [k \in {"base"} |-> ErrorKind(raises)]

\* lines 143-147
ShowUserForm(fl, es, schema_input, errors) ==
    [flow |-> [fl EXCEPT !.pc = "form",
                         !.result = async_show_form("user", _data_schema(schema_input),
                                                    errors)],
     entries |-> es]

\* line 141 and the flow manager persisting the entry
CreateEntry(fl, es, result) ==
    [flow |-> [fl EXCEPT !.pc = "done", !.result = result],
     entries |-> Append(es, NewEntry(fl, result))]

\* faulty variant: the entry is created without the check for an entry
\* with the same unique id
Finish_no_abort(fl, es, title, user_input) ==
    CreateEntry(fl, es, async_create_entry(title, user_input))

\* lines 140-141, for the flow with its unique id set
Finish(fl, es, title, user_input) ==
    IF Configured(es, fl.unique_id)
    THEN [flow |-> [fl EXCEPT !.pc = "aborted",
                              !.result = async_abort("already_configured")],
          entries |-> es]
    ELSE CreateEntry(fl, es, async_create_entry(title, user_input))

\* faulty variant: the unique id the flow already has is kept
async_step_user_end_keep_id(fl, es, user_input, outcome) ==
    IF outcome.raises = ""
    THEN Finish(IF fl.unique_id = None THEN async_set_unique_id(fl, outcome.info.uuid) ELSE fl,
                es, outcome.info.title, user_input)
    ELSE ShowUserForm(fl, es, fl.discovered_conf, Errors(outcome.raises))

\* faulty variant: the entry is created without looking at the errors
async_step_user_end_unchecked(fl, es, user_input, outcome) ==
    Finish(async_set_unique_id(fl, outcome.info.uuid), es, outcome.info.title,
           user_input)

\* faulty variant: the check for an entry with the unique id runs before the
\* unique id is set
async_step_user_end_check_first(fl, es, user_input, outcome) ==
    IF outcome.raises = ""
    THEN IF Configured(es, fl.unique_id)
         THEN Finish(fl, es, outcome.info.title, user_input)
         ELSE CreateEntry(async_set_unique_id(fl, outcome.info.uuid), es,
                          async_create_entry(outcome.info.title, user_input))
    ELSE ShowUserForm(fl, es, fl.discovered_conf, Errors(outcome.raises))

\* faulty variant: the form is pre-filled from the submission
async_step_user_end_input_schema(fl, es, user_input, outcome) ==
    IF outcome.raises = ""
    THEN Finish(async_set_unique_id(fl, outcome.info.uuid), es, outcome.info.title,
                user_input)
    ELSE ShowUserForm(fl, es, user_input, Errors(outcome.raises))

async_step_user_end(fl, es, user_input, outcome) ==
    IF outcome.raises = ""
    THEN Finish(async_set_unique_id(fl, outcome.info.uuid), es, outcome.info.title,
                user_input)
    ELSE ShowUserForm(fl, es, fl.discovered_conf, Errors(outcome.raises))

(***************************************************************************)
(* async_step_user with user_input, lines 123-127 and 51-76: either        *)
(* validate_input raises before the executor job and the step completes,   *)
(* or the job is dispatched and the step is suspended.                     *)
(***************************************************************************)
Await(fl, es, user_input, begun) ==
    IF begun.raises = ""
    THEN [flow |-> [fl EXCEPT !.pc = "validating",
                              !.job = [NoJob EXCEPT !.state = "pending",
                                                    !.args = begun.args]],
          entries |-> es]
    ELSE async_step_user_end(fl, es, user_input,
                             [raises |-> begun.raises, info |-> NoInfo])

\* faulty variant: the step aborts before validation when an entry stores the
\* submitted host
async_step_user_begin_match_first(fl, es, user_input) ==
    IF /\ CONF_HOST \in DOMAIN user_input
       /\ \E i \in 1..Len(es) : es[i].data[CONF_HOST] = user_input[CONF_HOST]
    THEN [flow |-> [fl EXCEPT !.user_input = Some(user_input), !.job = NoJob,
                             !.fetches = 0, !.pc = "aborted",
                             !.result = async_abort("already_configured")],
          entries |-> es]
    ELSE Await([fl EXCEPT !.user_input = Some(user_input), !.job = NoJob, !.fetches = 0,
                          !.result = NoResult],
               es, user_input, validate_input_begin(user_input))

async_step_user_begin(fl, es, user_input) ==
    Await([fl EXCEPT !.user_input = Some(user_input), !.job = NoJob, !.fetches = 0,
                     !.result = NoResult],
          es, user_input, validate_input_begin(user_input))

Init ==
    /\ flow = [f \in Flows |-> NewFlow]
    /\ entries = <<>>
    /\ options_flow = NoOptionsFlow

\* the step of flow f returns or is suspended with the outcome r
Becomes(f, r) ==
    /\ flow' = [flow EXCEPT ![f] = r.flow]
    /\ entries' = r.entries
    /\ UNCHANGED options_flow

\* async_step_user(None) of a flow started by the user: render the empty form
StepUserInit(f) ==
    /\ flow[f].pc = "init"
    /\ Becomes(f, ShowUserForm([flow[f] EXCEPT !.source = "user"], entries,
                               flow[f].discovered_conf, EmptyDict))

\* async_step_user(user_input): the form is submitted
StepUser(f, user_input) ==
    /\ flow[f].pc = "form"
    /\ Becomes(f, async_step_user_begin(flow[f], entries, user_input))

\* faulty variant: the imported configuration is not handed to the user step
StepImport_drops_input(f, user_input) ==
    /\ flow[f].pc = "init"
    /\ Becomes(f, ShowUserForm([flow[f] EXCEPT !.source = "import"], entries,
                               flow[f].discovered_conf, EmptyDict))

\* async_step_import (lines 149-151)
StepImport(f, user_input) ==
    /\ flow[f].pc = "init"
    /\ Becomes(f, async_step_user_begin([flow[f] EXCEPT !.source = "import"],
                                        entries, user_input))

\* faulty variant: a fetch that raised is made again
Fetched_retry(job, lib, fetched) ==
    [job EXCEPT !.state = IF fetched.raises = "" THEN "done" ELSE "pending",
                !.lib = lib.kind, !.raises = fetched.raises, !.conf = fetched.conf]

\* the executor's result is recorded in the job
Fetched(job, lib, fetched) ==
    [job EXCEPT !.state = "done", !.lib = lib.kind,
                !.raises = fetched.raises, !.conf = fetched.conf]

\* the executor runs the dispatched job (lines 67-76, 85-102)
FetchIsyConfiguration(f, lib) ==
    /\ flow[f].pc = "validating"
    /\ flow[f].job.state = "pending"
    /\ flow' = [flow EXCEPT ![f].job =
                  Fetched(@, lib, _fetch_isy_configuration(flow[f].job.args, lib)),
                            ![f].fetches = @ + 1]
    /\ UNCHANGED <<entries, options_flow>>

\* faulty variant: the suspended step resumes when the job of any flow is done
ResumeUser_any_job(f) ==
    /\ flow[f].pc = "validating"
    /\ \E g \in Flows : flow[g].job.state = "done"
    /\ Becomes(f, async_step_user_end(flow[f], entries, flow[f].user_input[1],
                                      validate_input_end(flow[f].user_input[1],
                                                         flow[f].job)))

\* the suspended step resumes with the job's outcome (lines 78-82, 128-147)
ResumeUser(f) ==
    /\ flow[f].pc = "validating"
    /\ flow[f].job.state = "done"
    /\ Becomes(f, async_step_user_end(flow[f], entries, flow[f].user_input[1],
                                      validate_input_end(flow[f].user_input[1],
                                                         flow[f].job)))

(***************************************************************************)
(* async_step_ssdp (lines 153-172).                                        *)
(***************************************************************************)
\* faulty variant: the prefix length is cut off without the startswith test
StripPrefix_unconditional(mac) == From(mac, Len(UDN_UUID_PREFIX))

StripPrefix(mac) ==
    IF StartsWith(mac, UDN_UUID_PREFIX) THEN From(mac, Len(UDN_UUID_PREFIX)) ELSE mac

StripPostfix(url) ==
    IF EndsWith(url, ISY_URL_POSTFIX) THEN Upto(url, Len(url) - Len(ISY_URL_POSTFIX)) ELSE url

DiscoveredConf(friendly_name, url) ==
    [k \in {CONF_NAME, CONF_HOST} |-> IF k = CONF_NAME THEN friendly_name ELSE url]

\* faulty variant: the discovered configuration is handed to the user step
\* as its input
Discovered_submits(fl, es, discovered_conf) ==
    IF Configured(es, fl.unique_id)
    THEN [fl EXCEPT !.pc = "aborted", !.result = async_abort("already_configured")]
    ELSE async_step_user_begin([fl EXCEPT !.discovered_conf = discovered_conf,
                                          !.title_placeholders = discovered_conf],
                               es, discovered_conf).flow

\* lines 164-172, for the flow with its unique id set
Discovered(fl, es, discovered_conf) ==
    IF Configured(es, fl.unique_id)
    THEN [fl EXCEPT !.pc = "aborted", !.result = async_abort("already_configured")]
    ELSE ShowUserForm([fl EXCEPT !.discovered_conf = discovered_conf,
                                 !.title_placeholders = discovered_conf],
                      es, discovered_conf, EmptyDict).flow

async_step_ssdp(fl, es, discovery_info) ==
    Discovered(async_set_unique_id([fl EXCEPT !.source = "ssdp",
                                              !.discovery_info = discovery_info],
                                   StripPrefix(discovery_info[ATTR_UPNP_UDN])),
               es,
               DiscoveredConf(discovery_info[ATTR_UPNP_FRIENDLY_NAME],
                              StripPostfix(discovery_info[ATTR_SSDP_LOCATION])))

\* faulty variant: the prefill state is one object shared by the instances
StepSsdp_shared(f, discovery_info) ==
    /\ flow[f].pc = "init"
    /\ flow' = [g \in Flows |->
                  IF g = f THEN async_step_ssdp(flow[f], entries, discovery_info)
                  ELSE [flow[g] EXCEPT !.discovered_conf =
                           async_step_ssdp(flow[f], entries, discovery_info).discovered_conf]]
    /\ UNCHANGED <<entries, options_flow>>

StepSsdp(f, discovery_info) ==
    /\ flow[f].pc = "init"
    /\ flow' = [flow EXCEPT ![f] =
                  async_step_ssdp(flow[f], entries, discovery_info)]
    /\ UNCHANGED <<entries, options_flow>>

(***************************************************************************)
(* The options editor: OptionsFlowHandler (lines 175-208) and              *)
(* ConfigFlow.async_get_options_flow (lines 115-119).                      *)
(***************************************************************************)
CONF_IGNORE_STRING == "ignore_string"

CONF_SENSOR_STRING == "sensor_string"

CONF_VAR_SENSOR_STRING == "variable_sensor_string"

CONF_RESTORE_LIGHT_STATE == "restore_light_state"

DEFAULT_IGNORE_STRING == <<"{", "I", "G", "N", "O", "R", "E", " ", "M", "E", "}">>

DEFAULT_SENSOR_STRING == <<"s", "e", "n", "s", "o", "r">>

DEFAULT_VAR_SENSOR_STRING == <<"H", "A", ".">>

DEFAULT_RESTORE_LIGHT_STATE == FALSE

\* lines 197-206: the schema of the options form, by the default of each field
options_schema(ignore_string, sensor_string, var_sensor_string, restore_light_state) ==
    [default |->
        [k \in {CONF_IGNORE_STRING, CONF_SENSOR_STRING, CONF_VAR_SENSOR_STRING,
                CONF_RESTORE_LIGHT_STATE} |->
            IF k = CONF_IGNORE_STRING THEN ignore_string
            ELSE IF k = CONF_SENSOR_STRING THEN sensor_string
            ELSE IF k = CONF_VAR_SENSOR_STRING THEN var_sensor_string
            ELSE restore_light_state],
     optional |-> {CONF_IGNORE_STRING, CONF_SENSOR_STRING, CONF_VAR_SENSOR_STRING},
     required |-> {CONF_RESTORE_LIGHT_STATE}]

\* faulty variant: the form always offers the static defaults
OptionsForm_static(options) ==
    async_show_form("init",
                    options_schema(DEFAULT_IGNORE_STRING, DEFAULT_SENSOR_STRING,
                                   DEFAULT_VAR_SENSOR_STRING, DEFAULT_RESTORE_LIGHT_STATE),
                    EmptyDict)

\* lines 187-208: async_step_init without input
OptionsForm(options) ==
    async_show_form("init",
                    options_schema(
                        Get(options, CONF_IGNORE_STRING, DEFAULT_IGNORE_STRING),
                        Get(options, CONF_SENSOR_STRING, DEFAULT_SENSOR_STRING),
                        Get(options, CONF_VAR_SENSOR_STRING, DEFAULT_VAR_SENSOR_STRING),
                        Get(options, CONF_RESTORE_LIGHT_STATE, DEFAULT_RESTORE_LIGHT_STATE)),
                    EmptyDict)

\* the submission laid over the stored options
Merged(options, user_input) ==
    [k \in DOMAIN options \cup DOMAIN user_input |->
        IF k \in DOMAIN user_input THEN user_input[k] ELSE options[k]]

\* faulty variant: the submission is merged into the stored options
async_step_init_merge(options, user_input) ==
    IF user_input # None
    THEN async_create_entry(<<>>, Merged(options, user_input[1]))
    ELSE OptionsForm(options)

\* lines 182-208, for the options of self.config_entry
async_step_init(options, user_input) ==
    IF user_input # None
    THEN async_create_entry(<<>>, user_input[1])
    ELSE OptionsForm(options)

\* the options flow manager finishing the flow: a create_entry result
\* becomes the entry's options record
UpdateOptions(es, config_entry, result) ==
    IF result.type = "create_entry"
    THEN [es EXCEPT ![config_entry].options = result.data]
    ELSE es

\* the step of the options flow returns the result
OptionsBecomes(result, user_input) ==
    /\ options_flow' = [options_flow EXCEPT
                            !.pc = IF result.type = "form" THEN "form" ELSE "done",
                            !.user_input = user_input,
                            !.result = result]
    /\ entries' = UpdateOptions(entries, options_flow.config_entry, result)
    /\ UNCHANGED flow

\* async_get_options_flow (lines 115-119) and OptionsFlowHandler.__init__
\* (lines 178-180): an editor for the entry is created
GetOptionsFlow(config_entry) ==
    /\ options_flow.pc \in {"none", "done"}
    /\ config_entry \in 1..Len(entries)
    /\ options_flow' = [NoOptionsFlow EXCEPT !.pc = "init", !.config_entry = config_entry]
    /\ UNCHANGED <<flow, entries>>

\* async_step_init(None)
StepInit ==
    /\ options_flow.pc = "init"
    /\ OptionsBecomes(async_step_init(entries[options_flow.config_entry].options, None),
                      None)

\* async_step_init(user_input)
StepInitSubmit(user_input) ==
    /\ options_flow.pc \in {"init", "form"}
    /\ OptionsBecomes(async_step_init(entries[options_flow.config_entry].options,
                                      Some(user_input)),
                      Some(user_input))

(***************************************************************************)
(* Inputs: host URLs, submissions, discovery payloads and the behaviours   *)
(* of the pyisy library.                                                   *)
(***************************************************************************)
Http == <<"h", "t", "t", "p", ":", "/", "/">>

Https == <<"h", "t", "t", "p", "s", ":", "/", "/">>

UrlHttp == Http \o <<"a">>

UrlFtp == <<"f", "t", "p", ":", "/", "/", "a">>

Urls ==
    {UrlHttp,
     Https \o <<"a">>,
     Http \o <<"a", ":", "8", "1">>,
     Https \o <<"B", ":", "8", "1", "/", "w">>,
     Http \o <<"a", ":", "0">>,
     Https \o <<"a", ":", "0">>,
     Http \o <<"a", ":">>,
     Http \o <<"a", ":", "x">>,
     Http \o <<"a", ":", "9", "9", "9", "9", "9">>,
     <<"H", "T", "T", "P", ":", "/", "/", "A">>,
     Http \o <<"/", "w">>,
     UrlFtp,
     <<"a">>,
     <<"a", ":", "8", "1">>,
     <<>>}

Username == <<"u">>

Password == <<"p">>

TlsVer == <<"1", ".", "1">>

Submission(url) ==
    [k \in {CONF_HOST, CONF_USERNAME, CONF_PASSWORD, CONF_TLS_VER} |->
        IF k = CONF_HOST THEN url
        ELSE IF k = CONF_USERNAME THEN Username
        ELSE IF k = CONF_PASSWORD THEN Password
        ELSE TlsVer]

Without(data, key) == [k \in DOMAIN data \ {key} |-> data[k]]

\* the submissions of the single-wizard specification
UserInputs ==
    {Submission(url) : url \in Urls}
        \cup {Without(Submission(UrlFtp), CONF_USERNAME),
              Without(Submission(UrlHttp), CONF_USERNAME),
              Without(Submission(UrlHttp), CONF_PASSWORD),
              Without(Submission(UrlHttp), CONF_HOST),
              Without(Submission(UrlHttp), CONF_TLS_VER)}

\* the submissions of the specification of concurrent wizards
BasicInputs == {Submission(UrlHttp), Submission(UrlFtp)}

UuidA == <<"A">>

UuidB == <<"B">>

IsyName == <<"H", "u", "b">>

Conf(keys, name, uuid) ==
    [k \in keys |-> IF k = "name" THEN name
                    ELSE IF k = "uuid" THEN uuid
                    ELSE <<"4">>]

Configurations ==
    {Conf({"name", "uuid", "firmware"}, IsyName, UuidA),
     Conf({"name", "uuid", "firmware"}, IsyName, UuidB),
     Conf({"name", "uuid"}, <<>>, UuidA),
     Conf({"uuid", "firmware"}, <<>>, UuidA),
     Conf({"name", "firmware"}, IsyName, <<>>),
     Conf({"name"}, <<>>, <<>>),
     Conf({"firmware"}, <<>>, <<>>),
     EmptyDict}

LibReturns(conf) == [kind |-> "Configuration", conf |-> conf]

LibRaises(kind) == [kind |-> kind, conf |-> EmptyDict]

LibOutcomes ==
    {LibReturns(conf) : conf \in Configurations}
        \cup {LibRaises(kind) : kind \in {"ValueError", "ConnectionError", "ConfigError"}}

BasicLibOutcomes ==
    {LibReturns(Conf({"name", "uuid", "firmware"}, IsyName, UuidA)),
     LibReturns(Conf({"name", "uuid", "firmware"}, IsyName, UuidB)),
     LibReturns(EmptyDict),
     LibRaises("ValueError")}

Discovery(friendly_name, location, udn) ==
    [k \in {ATTR_UPNP_FRIENDLY_NAME, ATTR_SSDP_LOCATION, ATTR_UPNP_UDN} |->
        IF k = ATTR_UPNP_FRIENDLY_NAME THEN friendly_name
        ELSE IF k = ATTR_SSDP_LOCATION THEN location
        ELSE udn]

BasicDiscoveries ==
    {Discovery(<<"I", "S", "Y">>, UrlHttp \o ISY_URL_POSTFIX, UDN_UUID_PREFIX \o UuidA),
     Discovery(<<"I", "S", "Y">>, Https \o <<"b">>, UuidB)}

Discoveries ==
    BasicDiscoveries
        \cup {Discovery(<<"I", "S", "Y">>, ISY_URL_POSTFIX \o <<"/", "x">>,
                        UuidA \o UDN_UUID_PREFIX),
              Discovery(<<"I", "S", "Y">>, Http \o <<"a", ":", "8", "0">> \o ISY_URL_POSTFIX,
                        UDN_UUID_PREFIX \o UDN_UUID_PREFIX \o UuidB)}

(***************************************************************************)
(* Spec: NumFlows wizards running concurrently.                            *)
(***************************************************************************)
Next ==
    \E f \in Flows :
        \/ StepUserInit(f)
        \/ \E user_input \in BasicInputs : StepUser(f, user_input)
        \/ \E user_input \in BasicInputs : StepImport(f, user_input)
        \/ \E discovery_info \in BasicDiscoveries : StepSsdp(f, discovery_info)
        \/ \E lib \in BasicLibOutcomes : FetchIsyConfiguration(f, lib)
        \/ ResumeUser(f)

Spec == Init /\ [][Next]_vars

(***************************************************************************)
(* SpecWizard: one wizard over the whole input space; the device with      *)
(* UUID A may already have been configured by an earlier wizard.           *)
(***************************************************************************)
EarlierEntry ==
    [unique_id |-> Some(UuidA),
     title |-> Title(IsyName, urlparse(UrlHttp).hostname),
     data |-> Submission(UrlHttp),
     options |-> EmptyDict]

InitWizard ==
    /\ flow = [f \in Flows |-> NewFlow]
    /\ entries \in {<<>>, <<EarlierEntry>>}
    /\ options_flow = NoOptionsFlow

\* the wizard that runs: the first flow
Wizard == CHOOSE f \in Flows : \A g \in Flows : f <= g

NextWizard ==
    \/ StepUserInit(Wizard)
    \/ \E user_input \in UserInputs : StepUser(Wizard, user_input)
    \/ \E user_input \in UserInputs : StepImport(Wizard, user_input)
    \/ \E discovery_info \in Discoveries : StepSsdp(Wizard, discovery_info)
    \/ \E lib \in LibOutcomes : FetchIsyConfiguration(Wizard, lib)
    \/ ResumeUser(Wizard)

SpecWizard == InitWizard /\ [][NextWizard]_vars

(***************************************************************************)
(* SpecOptions: the options editor on the entries of two configured        *)
(* devices, the first with any stored options record.                      *)
(***************************************************************************)
OptionKeys ==
    {CONF_IGNORE_STRING, CONF_SENSOR_STRING, CONF_VAR_SENSOR_STRING,
     CONF_RESTORE_LIGHT_STATE}

\* an options record with the given keys
Options(keys, ignore_string, sensor_string, var_sensor_string, restore_light_state) ==
    [k \in keys |->
        options_schema(ignore_string, sensor_string, var_sensor_string,
                       restore_light_state).default[k]]

StoredOptions ==
    {Options(keys, <<"i">>, <<"s">>, <<"v">>, restore_light_state) :
        keys \in SUBSET OptionKeys, restore_light_state \in BOOLEAN}

OptionInputs ==
    {Options(OptionKeys, <<"n">>, <<"m">>, <<>>, TRUE),
     Options(OptionKeys, <<>>, <<>>, <<>>, FALSE),
     Options({CONF_RESTORE_LIGHT_STATE}, <<>>, <<>>, <<>>, TRUE),
     Options({CONF_IGNORE_STRING}, <<"n">>, <<>>, <<>>, TRUE),
     EmptyDict}

OtherEntry ==
    [unique_id |-> Some(UuidB),
     title |-> Title(IsyName, urlparse(Https \o <<"b">>).hostname),
     data |-> Submission(Https \o <<"b">>),
     options |-> EmptyDict]

InitOptions ==
    /\ flow = [f \in Flows |-> NewFlow]
    /\ entries \in {<<[EarlierEntry EXCEPT !.options = options], OtherEntry>> :
                       options \in StoredOptions}
    /\ options_flow = NoOptionsFlow

NextOptions ==
    \/ \E config_entry \in 1..Len(entries) : GetOptionsFlow(config_entry)
    \/ StepInit
    \/ \E user_input \in OptionInputs : StepInitSubmit(user_input)

SpecOptions == InitOptions /\ [][NextOptions]_vars

(***************************************************************************)
(* Vocabulary of the properties.                                           *)
(***************************************************************************)
\* the step that received the flow's latest submission has returned
Returned(fl) == fl.user_input # None /\ fl.pc # "validating"

\* flow f's suspended user step resumes and returns in this transition
Resumes(f) ==
    /\ flow[f].pc = "validating"
    /\ flow[f].job.state = "done"
    /\ flow'[f].pc # "validating"

\* the form of the user step carrying exactly the error kind under "base"
ErrorForm(fl, kind) ==
    /\ fl.pc = "form"
    /\ fl.result.type = "form"
    /\ fl.result.step_id = "user"
    /\ DOMAIN fl.result.errors = {"base"}
    /\ fl.result.errors["base"] = kind

HasKeys(fl, keys) == keys \subseteq DOMAIN fl.user_input[1]

SchemeOf(fl) == urlparse(fl.user_input[1][CONF_HOST]).scheme

RecognizedSchemes == {<<"h", "t", "t", "p">>, <<"h", "t", "t", "p", "s">>}

HasEntry(unique_id) ==
    \E i \in 1..Len(entries) : entries[i].unique_id = <<unique_id>>

\* the library returned a configuration with a non-empty name and a UUID
FetchedIdentity(job) ==
    /\ job.lib = "Configuration"
    /\ {"name", "uuid"} \subseteq DOMAIN job.conf
    /\ job.conf["name"] # <<>>

\* the identifier and the URL a discovery payload yields when stripped
ExpectedId(udn) ==
    IF Len(udn) >= 5 /\ SubSeq(udn, 1, 5) = <<"u", "u", "i", "d", ":">>
    THEN SubSeq(udn, 6, Len(udn)) ELSE udn

ExpectedUrl(location) ==
    IF Len(location) >= 5
       /\ SubSeq(location, Len(location) - 4, Len(location)) = <<"/", "d", "e", "s", "c">>
    THEN SubSeq(location, 1, Len(location) - 5) ELSE location

(***************************************************************************)
(* C1.  As claimed: every submission whose host URL has a scheme other     *)
(* than http and https ends in the form with error invalid_host, and no    *)
(* fetch of the device configuration is made for it.                       *)
(***************************************************************************)
C1_EverySubmission ==
    \A f \in Flows :
        (/\ flow[f].user_input # None
         /\ HasKeys(flow[f], {CONF_HOST})
         /\ SchemeOf(flow[f]) \notin RecognizedSchemes)
        => (/\ ErrorForm(flow[f], "invalid_host")
            /\ flow[f].job.state = "none"
            /\ flow[f].fetches = 0)

\* C1, amended: every submission that carries the username, password and
\* host keys and whose host URL has a scheme other than http and https ends
\* in the form with error invalid_host, and no fetch is made for it.
C1_InvalidHostNoFetch ==
    \A f \in Flows :
        (/\ flow[f].user_input # None
         /\ HasKeys(flow[f], {CONF_HOST, CONF_USERNAME, CONF_PASSWORD})
         /\ SchemeOf(flow[f]) \notin RecognizedSchemes)
        => (/\ ErrorForm(flow[f], "invalid_host")
            /\ flow[f].job.state = "none"
            /\ flow[f].fetches = 0)

C1_Witness ==
    \E f \in Flows :
        /\ Returned(flow[f])
        /\ HasKeys(flow[f], {CONF_HOST, CONF_USERNAME, CONF_PASSWORD})
        /\ SchemeOf(flow[f]) = <<"f", "t", "p">>
        /\ ErrorForm(flow[f], "invalid_host")

(***************************************************************************)
(* C2.  A user or import submission whose fetched UUID, or a discovery     *)
(* whose stripped identifier, is the unique id of a persisted entry ends   *)
(* in abort: the entries are unchanged and no form is returned.            *)
(***************************************************************************)
C2_DuplicateAborts ==
    [][\A f \in Flows :
          /\ (/\ Resumes(f)
              /\ FetchedIdentity(flow[f].job)
              /\ HasEntry(flow[f].job.conf["uuid"]))
             => (/\ flow'[f].pc = "aborted"
                 /\ flow'[f].result.type = "abort"
                 /\ entries' = entries)
          /\ (/\ flow[f].pc = "init"
              /\ flow'[f].source = "ssdp"
              /\ HasEntry(ExpectedId(flow'[f].discovery_info[ATTR_UPNP_UDN])))
             => (/\ flow'[f].pc = "aborted"
                 /\ flow'[f].result.type = "abort"
                 /\ entries' = entries)]_vars

C2_Witness ==
    \E f \in Flows :
        /\ flow[f].pc = "aborted"
        /\ flow[f].source \in {"user", "import"}
        /\ FetchedIdentity(flow[f].job)
        /\ HasEntry(flow[f].job.conf["uuid"])
        /\ flow[f].result.reason = "already_configured"

(***************************************************************************)
(* C3.  When the fetch returns a non-empty name N and a UUID U for a host  *)
(* with hostname H and no entry has unique id U, the step creates the      *)
(* entry titled "N (H)" with unique id U and the submission as its data.   *)
(***************************************************************************)
C3_EntryCreated ==
    [][\A f \in Flows :
          (/\ Resumes(f)
           /\ FetchedIdentity(flow[f].job)
           /\ ~HasEntry(flow[f].job.conf["uuid"])
           /\ flow[f].job.args.address # None)
          => LET N == flow[f].job.conf["name"]
                 U == flow[f].job.conf["uuid"]
                 H == urlparse(flow[f].user_input[1][CONF_HOST]).hostname[1]
                 title == N \o <<" ", "(">> \o H \o <<")">>
             IN  /\ flow'[f].pc = "done"
                 /\ flow'[f].result.type = "create_entry"
                 /\ flow'[f].result.title = title
                 /\ flow'[f].result.data = flow[f].user_input[1]
                 /\ entries' = Append(entries,
                                      [unique_id |-> <<U>>, title |-> title,
                                       data |-> flow[f].user_input[1],
                                       options |-> EmptyDict])]_vars

C3_Witness ==
    \E f \in Flows :
        /\ flow[f].pc = "done"
        /\ flow[f].job.args.address # None
        /\ Len(entries) > 0
        /\ entries[Len(entries)].unique_id = <<flow[f].job.conf["uuid"]>>
        /\ entries[Len(entries)].data = flow[f].user_input[1]

(***************************************************************************)
(* C4.  When the library signals bad credentials (the Connection raises    *)
(* ValueError), the user step returns the form with error invalid_auth     *)
(* and the entries are unchanged.                                          *)
(***************************************************************************)
C4_BadCredentials ==
    [][\A f \in Flows :
          (Resumes(f) /\ flow[f].job.lib = "ValueError")
          => (ErrorForm(flow'[f], "invalid_auth") /\ entries' = entries)]_vars

C4_Witness ==
    \E f \in Flows :
        /\ Returned(flow[f])
        /\ flow[f].job.lib = "ValueError"
        /\ ErrorForm(flow[f], "invalid_auth")

(***************************************************************************)
(* C5.  When the fetch returns a configuration that is empty, has no name  *)
(* or has an empty name, the user step returns the form with error         *)
(* cannot_connect and the entries are unchanged, with or without a UUID.   *)
(***************************************************************************)
NoUsableName(job) ==
    /\ job.lib = "Configuration"
    /\ \/ DOMAIN job.conf = {}
       \/ "name" \notin DOMAIN job.conf
       \/ job.conf["name"] = <<>>

C5_NoName ==
    [][\A f \in Flows :
          (Resumes(f) /\ NoUsableName(flow[f].job))
          => (ErrorForm(flow'[f], "cannot_connect") /\ entries' = entries)]_vars

C5_Witness ==
    \E f \in Flows :
        /\ Returned(flow[f])
        /\ NoUsableName(flow[f].job)
        /\ "uuid" \in DOMAIN flow[f].job.conf
        /\ ErrorForm(flow[f], "cannot_connect")

(***************************************************************************)
(* C6.  As claimed: every failed submission returns the user form with     *)
(* the host field pre-filled with the host of that submission and exactly  *)
(* one error, under "base", of one of the four kinds.                      *)
(***************************************************************************)
ErrorKinds == {"invalid_host", "cannot_connect", "invalid_auth", "unknown"}

OneBaseError(fl) ==
    /\ fl.result.type = "form"
    /\ fl.result.step_id = "user"
    /\ DOMAIN fl.result.errors = {"base"}
    /\ fl.result.errors["base"] \in ErrorKinds

\* the latest submission of the flow failed: its step returned the form
Failed(fl) == fl.user_input # None /\ fl.pc = "form"

C6_PrefilledFromSubmission ==
    \A f \in Flows :
        (Failed(flow[f]) /\ HasKeys(flow[f], {CONF_HOST}))
        => (/\ OneBaseError(flow[f])
            /\ flow[f].result.data_schema.host_default = flow[f].user_input[1][CONF_HOST])

\* C6, amended: every failed submission returns the user form with exactly
\* one error, under "base", of one of the four kinds; the host field is
\* pre-filled with the candidate host of the flow's discovery (empty when the
\* flow was not started by discovery), not with the host of the submission.
C6_PrefilledFromDiscovery ==
    \A f \in Flows :
        Failed(flow[f])
        => (/\ OneBaseError(flow[f])
            /\ flow[f].result.data_schema.host_default =
                   IF flow[f].source = "ssdp"
                   THEN ExpectedUrl(flow[f].discovery_info[ATTR_SSDP_LOCATION])
                   ELSE <<>>)

C6_Witness ==
    \E f \in Flows :
        /\ Failed(flow[f])
        /\ flow[f].source = "ssdp"
        /\ HasKeys(flow[f], {CONF_HOST})
        /\ flow[f].result.data_schema.host_default # <<>>
        /\ flow[f].result.data_schema.host_default # flow[f].user_input[1][CONF_HOST]

(***************************************************************************)
(* C7.  A failure of validation other than the three typed errors (a       *)
(* missing username, password or host key, a port that does not parse, an  *)
(* error raised by the library, a configuration with a name and no UUID)   *)
(* ends in the form with error unknown, and the entries are unchanged.     *)
(***************************************************************************)
UntypedFailure(fl) ==
    \/ ~HasKeys(fl, {CONF_HOST, CONF_USERNAME, CONF_PASSWORD})
    \/ /\ HasKeys(fl, {CONF_HOST, CONF_USERNAME, CONF_PASSWORD})
       /\ SchemeOf(fl) \in RecognizedSchemes
       /\ urlparse(fl.user_input[1][CONF_HOST]).port_raises
    \/ /\ fl.job.state = "done"
       /\ fl.job.lib \in {"ConnectionError", "ConfigError"}
    \/ /\ fl.job.state = "done"
       /\ fl.job.lib = "Configuration"
       /\ "name" \in DOMAIN fl.job.conf
       /\ fl.job.conf["name"] # <<>>
       /\ "uuid" \notin DOMAIN fl.job.conf

C7_UnknownError ==
    [][\A f \in Flows :
          (/\ flow'[f] # flow[f]
           /\ Returned(flow'[f])
           /\ UntypedFailure(flow'[f]))
          => (ErrorForm(flow'[f], "unknown") /\ entries' = entries)]_vars

C7_Witness ==
    \E f \in Flows :
        /\ Returned(flow[f])
        /\ flow[f].job.state = "done"
        /\ flow[f].job.lib = "Configuration"
        /\ "uuid" \notin DOMAIN flow[f].job.conf
        /\ UntypedFailure(flow[f])
        /\ ErrorForm(flow[f], "unknown")

(***************************************************************************)
(* C8.  As claimed: the port of the fetch is the explicit port of the host *)
(* URL when it has one, and otherwise 80 for http and 443 for https; the   *)
(* encryption flag is false for http and true for https.                   *)
(***************************************************************************)
DefaultPort(scheme) == IF scheme = <<"h", "t", "t", "p">> THEN 80 ELSE 443

Dispatched(fl) == fl.user_input # None /\ fl.job.state # "none"

C8_ExplicitPort ==
    \A f \in Flows :
        Dispatched(flow[f])
        => LET host == urlparse(flow[f].user_input[1][CONF_HOST])
           IN  /\ flow[f].job.args.port =
                      IF host.port # None THEN host.port[1] ELSE DefaultPort(host.scheme)
               /\ flow[f].job.args.use_https = (host.scheme = <<"h", "t", "t", "p", "s">>)

\* C8, amended: the port of the fetch is the explicit port of the host URL
\* when it has one other than 0, and otherwise (no port, an empty port, or
\* port 0) 80 for http and 443 for https; the encryption flag is false for
\* http and true for https.
C8_EffectivePort ==
    \A f \in Flows :
        Dispatched(flow[f])
        => LET host == urlparse(flow[f].user_input[1][CONF_HOST])
           IN  /\ host.scheme \in RecognizedSchemes
               /\ flow[f].job.args.port =
                      IF host.port # None /\ host.port # <<0>>
                      THEN host.port[1] ELSE DefaultPort(host.scheme)
               /\ flow[f].job.args.use_https = (host.scheme = <<"h", "t", "t", "p", "s">>)

C8_Witness ==
    \E f \in Flows :
        /\ Dispatched(flow[f])
        /\ urlparse(flow[f].user_input[1][CONF_HOST]).port = <<81>>
        /\ flow[f].job.args.port = 81
        /\ flow[f].job.args.use_https

(***************************************************************************)
(* C9.  The discovery step strips the prefix from an identifier that       *)
(* starts with it and the postfix from a location that ends with it, and   *)
(* leaves them unchanged otherwise; the stripped identifier is the flow's  *)
(* unique id once the step has run, and the stripped location is the host  *)
(* of the prefill state of every flow the step lets proceed.               *)
(***************************************************************************)
C9_Stripped ==
    \A f \in Flows :
        flow[f].source = "ssdp"
        => LET udn == flow[f].discovery_info[ATTR_UPNP_UDN]
               location == flow[f].discovery_info[ATTR_SSDP_LOCATION]
           IN  /\ flow[f].user_input = None => flow[f].unique_id = <<ExpectedId(udn)>>
               /\ (flow[f].user_input = None /\ flow[f].pc # "aborted")
                  => CONF_HOST \in DOMAIN flow[f].discovered_conf
               /\ CONF_HOST \in DOMAIN flow[f].discovered_conf
                  => flow[f].discovered_conf[CONF_HOST] = ExpectedUrl(location)

C9_Witness ==
    \E f \in Flows :
        /\ flow[f].source = "ssdp"
        /\ flow[f].pc = "form"
        /\ flow[f].unique_id # <<flow[f].discovery_info[ATTR_UPNP_UDN]>>
        /\ flow[f].unique_id = <<UuidA>>
        /\ flow[f].discovered_conf[CONF_HOST] # flow[f].discovery_info[ATTR_SSDP_LOCATION]
        /\ flow[f].discovered_conf[CONF_HOST] = UrlHttp

(***************************************************************************)
(* C10.  A discovery of a device that no entry has as unique id returns    *)
(* the user form with the candidate host as the default of the host field, *)
(* no error, the friendly name and the host as title placeholders; the     *)
(* entries are unchanged and no fetch is dispatched.                       *)
(***************************************************************************)
C10_DiscoveryRendersForm ==
    [][\A f \in Flows :
          (/\ flow[f].pc = "init"
           /\ flow'[f].source = "ssdp"
           /\ ~HasEntry(ExpectedId(flow'[f].discovery_info[ATTR_UPNP_UDN])))
          => LET info == flow'[f].discovery_info
                 host == ExpectedUrl(info[ATTR_SSDP_LOCATION])
             IN  /\ flow'[f].pc = "form"
                 /\ flow'[f].result.type = "form"
                 /\ flow'[f].result.step_id = "user"
                 /\ DOMAIN flow'[f].result.errors = {}
                 /\ flow'[f].result.data_schema.host_default = host
                 /\ DOMAIN flow'[f].title_placeholders = {CONF_NAME, CONF_HOST}
                 /\ flow'[f].title_placeholders[CONF_NAME] = info[ATTR_UPNP_FRIENDLY_NAME]
                 /\ flow'[f].title_placeholders[CONF_HOST] = host
                 /\ flow'[f].user_input = None
                 /\ flow'[f].job.state = "none"
                 /\ flow'[f].fetches = 0
                 /\ entries' = entries]_vars

C10_Witness ==
    \E f \in Flows :
        /\ flow[f].source = "ssdp"
        /\ flow[f].pc = "form"
        /\ flow[f].user_input = None
        /\ flow[f].job.state = "none"
        /\ flow[f].result.type = "form"
        /\ flow[f].result.data_schema.host_default = flow[f].title_placeholders[CONF_HOST]
        /\ ~HasEntry(flow[f].unique_id[1])

(***************************************************************************)
(* C11.  As claimed: the entry a discovery-started flow creates has the    *)
(* stripped discovery identifier as unique id, the entry a flow started    *)
(* from the user or import step creates has the device-reported UUID.      *)
(***************************************************************************)
\* flow f's step returns create_entry in this transition and the entry is
\* appended to the persisted ones
Creates(f) ==
    /\ flow[f].pc # "done"
    /\ flow'[f].pc = "done"
    /\ Len(entries') = Len(entries) + 1

C11_EntryIdBySource ==
    [][\A f \in Flows :
          Creates(f)
          => LET entry == entries'[Len(entries')]
             IN  IF flow[f].source = "ssdp"
                 THEN entry.unique_id
                        = <<ExpectedId(flow[f].discovery_info[ATTR_UPNP_UDN])>>
                 ELSE entry.unique_id = <<flow[f].job.conf["uuid"]>>]_vars

(***************************************************************************)
(* C11, amended.  The entry a flow creates has the device-reported UUID of *)
(* the validated submission as unique id, whichever step started the flow; *)
(* the stripped discovery identifier is the unique id of a discovery-      *)
(* started flow only until then.                                           *)
(***************************************************************************)
C11_EntryHasDeviceUuid ==
    [][\A f \in Flows :
          Creates(f)
          => /\ flow[f].source \in {"user", "import", "ssdp"}
             /\ flow[f].job.state = "done"
             /\ entries'[Len(entries')].unique_id = <<flow[f].job.conf["uuid"]>>
             /\ flow'[f].unique_id = <<flow[f].job.conf["uuid"]>>]_vars

\* a discovery-started flow created an entry for a device whose UUID is not
\* the discovered identifier
C11_Witness ==
    \E f \in Flows :
        /\ flow[f].source = "ssdp"
        /\ flow[f].pc = "done"
        /\ flow[f].unique_id = <<flow[f].job.conf["uuid"]>>
        /\ flow[f].unique_id # <<ExpectedId(flow[f].discovery_info[ATTR_UPNP_UDN])>>
        /\ HasEntry(flow[f].unique_id[1])

(***************************************************************************)
(* C12.  Every transition of a wizard follows the state machine: a         *)
(* submission is validated, and the step that received it ends in exactly  *)
(* one of done (the entry is created), aborted (duplicate) or the form     *)
(* with an error; an entry is created only by the step that resumes from   *)
(* the successful validation of the submission the entry stores, and a     *)
(* failed validation creates none.                                         *)
(***************************************************************************)
\* validate_input of the flow's submission succeeds on the completed job
Validated(fl) ==
    /\ fl.job.state = "done"
    /\ fl.job.args = validate_input_begin(fl.user_input[1]).args
    /\ fl.job.raises = ""
    /\ FetchedIdentity(fl.job)

\* the form with one of the error kinds
FormWithError(fl) == \E kind \in ErrorKinds : ErrorForm(fl, kind)

\* a step of a flow that awaits input, or has not begun, receives a submission
SubmissionStep(before, after) ==
    /\ after.user_input # None
    /\ \/ /\ after.pc = "validating"
          /\ after.job.state = "pending"
          /\ after.job.args = validate_input_begin(after.user_input[1]).args
          /\ validate_input_begin(after.user_input[1]).raises = ""
       \/ /\ FormWithError(after)
          /\ after.job.state = "none"
          /\ validate_input_begin(after.user_input[1]).raises # ""

FromInit(before, after) ==
    \/ after.pc = "form" /\ after.user_input = None
                         /\ after.source \in {"user", "ssdp"}
                         /\ DOMAIN after.result.errors = {}
    \/ after.pc = "aborted" /\ after.source = "ssdp" /\ after.user_input = None
    \/ after.source = "import" /\ SubmissionStep(before, after)

FromValidating(before, after) ==
    /\ after.user_input = before.user_input
    /\ \/ /\ before.job.state = "pending"
          /\ after.pc = "validating"
          /\ after.job.state = "done"
       \/ /\ Validated(before)
          /\ after.pc = "done"
          /\ after.result.type = "create_entry"
       \/ /\ Validated(before)
          /\ after.pc = "aborted"
          /\ after.result.type = "abort"
       \/ /\ before.job.state = "done"
          /\ ~Validated(before)
          /\ FormWithError(after)

C12_StateMachine ==
    [][/\ \A f \in Flows :
             flow'[f] # flow[f]
             => /\ flow[f].pc = "init" => FromInit(flow[f], flow'[f])
                /\ flow[f].pc = "form" => SubmissionStep(flow[f], flow'[f])
                /\ flow[f].pc = "validating" => FromValidating(flow[f], flow'[f])
                /\ flow[f].pc \notin {"done", "aborted"}
                /\ (flow'[f].pc = "done") = (entries' # entries)
                /\ flow'[f].pc = "done"
                   => entries' = Append(entries,
                                        [unique_id |-> <<flow[f].job.conf["uuid"]>>,
                                         title |-> flow'[f].result.title,
                                         data |-> flow[f].user_input[1],
                                         options |-> EmptyDict])
       /\ entries' # entries => \E f \in Flows : flow'[f] # flow[f]]_vars

\* a user-started wizard has created the entry from a validated submission
C12_Witness ==
    \E f \in Flows :
        /\ flow[f].pc = "done"
        /\ flow[f].source = "user"
        /\ Validated(flow[f])
        /\ flow[f].result.type = "create_entry"
        /\ entries # <<>>
        /\ entries[Len(entries)].data = flow[f].user_input[1]

(***************************************************************************)
(* C13.  The import step has the outcome of the user step called with the  *)
(* same configuration on the same entries: whenever a step of an           *)
(* import-started flow is suspended or returns, a user-started flow given  *)
(* the same submission (and, on resumption, the same fetched result) is    *)
(* suspended with the same fetch or returns the same create-entry (title,  *)
(* data, unique id), abort or form (error kind), with the same entries     *)
(* afterwards; and flows of the two kinds that returned from the same      *)
(* submission and fetch agree on failure and on title, data and unique id. *)
(***************************************************************************)
\* what the flow manager and the caller observe of a step
Observable(r) ==
    [pc |-> r.flow.pc,
     type |-> r.flow.result.type,
     step_id |-> r.flow.result.step_id,
     errors |-> r.flow.result.errors,
     title |-> r.flow.result.title,
     data |-> r.flow.result.data,
     reason |-> r.flow.result.reason,
     unique_id |-> r.flow.unique_id,
     args |-> r.flow.job.args,
     entries |-> r.entries]

\* a user-started flow that shows the empty form, as StepUserInit leaves it
AwaitingUser ==
    ShowUserForm([NewFlow EXCEPT !.source = "user"], <<>>, EmptyDict, EmptyDict).flow

\* the user-started flow suspended in the validation of the submission of fl
SuspendedUser(fl) ==
    [AwaitingUser EXCEPT !.pc = "validating", !.user_input = fl.user_input,
                         !.job = fl.job, !.fetches = fl.fetches, !.result = NoResult]

\* two returned steps agree up to the entries each of them found
SameOutcome(fl, gl) ==
    /\ (fl.pc = "form") = (gl.pc = "form")
    /\ fl.result.errors = gl.result.errors
    /\ fl.pc # "form" => /\ fl.unique_id = gl.unique_id
                         /\ validate_input_end(fl.user_input[1], fl.job).info
                              = validate_input_end(gl.user_input[1], gl.job).info

C13_ImportAsUser ==
    [][/\ \A f \in Flows :
            /\ (flow[f].pc = "init" /\ flow'[f].source = "import")
               => /\ flow'[f].user_input # None
                  /\ Observable([flow |-> flow'[f], entries |-> entries'])
                       = Observable(async_step_user_begin(AwaitingUser, entries,
                                                          flow'[f].user_input[1]))
            /\ (flow[f].source = "import" /\ Resumes(f))
               => Observable([flow |-> flow'[f], entries |-> entries'])
                    = Observable(async_step_user_end(
                                     SuspendedUser(flow[f]), entries,
                                     flow[f].user_input[1],
                                     validate_input_end(flow[f].user_input[1],
                                                        flow[f].job)))
       /\ \A f, g \in Flows :
            (/\ flow'[f].source = "import"
             /\ flow'[g].source = "user"
             /\ Returned(flow'[f])
             /\ Returned(flow'[g])
             /\ flow'[f].user_input = flow'[g].user_input
             /\ flow'[f].job = flow'[g].job)
            => SameOutcome(flow'[f], flow'[g])]_vars

\* an import-started and a user-started flow returned from the same
\* submission and the same fetched result: one created the entry, the
\* other found it
C13_Witness ==
    \E f, g \in Flows :
        /\ flow[f].source = "import"
        /\ flow[g].source = "user"
        /\ flow[f].user_input = flow[g].user_input
        /\ flow[f].job = flow[g].job
        /\ flow[f].job.state = "done"
        /\ {flow[f].pc, flow[g].pc} = {"done", "aborted"}
        /\ flow[f].unique_id = flow[g].unique_id
        /\ Len(entries) = 1

(***************************************************************************)
(* C14.  The options editor called without input returns the form of step  *)
(* init whose four fields default to the stored option values, each field  *)
(* on its own falling back to its static default when the stored options   *)
(* lack it; no entry and no options record is created or changed.          *)
(***************************************************************************)
StaticDefault(key) ==
    IF key = CONF_RESTORE_LIGHT_STATE THEN DEFAULT_RESTORE_LIGHT_STATE
    ELSE IF key = CONF_IGNORE_STRING THEN DEFAULT_IGNORE_STRING
    ELSE IF key = CONF_SENSOR_STRING THEN DEFAULT_SENSOR_STRING
    ELSE DEFAULT_VAR_SENSOR_STRING

\* the options record the editor was created for
EditedOptions == entries[options_flow.config_entry].options

\* the editor's step without input returns in this transition
Renders ==
    /\ options_flow.pc = "init"
    /\ options_flow'.pc # "init"
    /\ options_flow'.user_input = None

C14_FormDefaults ==
    [][Renders
       => /\ options_flow'.pc = "form"
          /\ options_flow'.result.type = "form"
          /\ options_flow'.result.step_id = "init"
          /\ DOMAIN options_flow'.result.data_schema.default = OptionKeys
          /\ \A key \in OptionKeys :
                options_flow'.result.data_schema.default[key]
                  = IF key \in DOMAIN EditedOptions THEN EditedOptions[key]
                    ELSE StaticDefault(key)
          /\ entries' = entries]_vars

\* a form rendered from a record that stores two of the four fields
C14_Witness ==
    /\ options_flow.pc = "form"
    /\ DOMAIN EditedOptions = {CONF_IGNORE_STRING, CONF_RESTORE_LIGHT_STATE}
    /\ options_flow.result.data_schema.default[CONF_IGNORE_STRING] = <<"i">>
    /\ options_flow.result.data_schema.default[CONF_RESTORE_LIGHT_STATE] = TRUE
    /\ options_flow.result.data_schema.default[CONF_SENSOR_STRING] = DEFAULT_SENSOR_STRING
    /\ options_flow.result.data_schema.default[CONF_VAR_SENSOR_STRING]
         = DEFAULT_VAR_SENSOR_STRING

(***************************************************************************)
(* C15.  The options editor called with submitted values returns           *)
(* create-entry with exactly the submission, which becomes the whole       *)
(* options record of the edited entry: no key of the previous record that  *)
(* was not submitted is kept and no default is filled in; nothing else of  *)
(* the entries changes.                                                    *)
(***************************************************************************)
\* the editor's step with submitted values returns in this transition
Submits ==
    /\ options_flow.pc \in {"init", "form"}
    /\ options_flow'.user_input # None

C15_FullReplacement ==
    [][Submits
       => LET config_entry == options_flow.config_entry
              user_input == options_flow'.user_input[1]
          IN  /\ options_flow'.pc = "done"
              /\ options_flow'.result.type = "create_entry"
              /\ options_flow'.result.title = <<>>
              /\ options_flow'.result.data = user_input
              /\ DOMAIN entries'[config_entry].options = DOMAIN user_input
              /\ entries'[config_entry].options = user_input
              /\ entries' = [entries EXCEPT ![config_entry].options = user_input]]_vars

\* the options record of the first entry is a submission of one field
C15_Witness ==
    /\ options_flow.pc = "done"
    /\ options_flow.config_entry = 1
    /\ options_flow.user_input = <<Options({CONF_IGNORE_STRING}, <<"n">>, <<>>, <<>>, TRUE)>>
    /\ DOMAIN EditedOptions = {CONF_IGNORE_STRING}
    /\ EditedOptions[CONF_IGNORE_STRING] = <<"n">>

(***************************************************************************)
(* C16.  Whatever the interleaving of user, import and discovery flows,    *)
(* no two persisted entries have the same unique id.                       *)
(***************************************************************************)
C16_UniqueEntries ==
    \A i, j \in 1..Len(entries) :
        /\ entries[i].unique_id # None
        /\ entries[i].unique_id = entries[j].unique_id => i = j

\* two flows discovered the same device before either was finished, both
\* submissions were validated against that device: one flow created the
\* entry and the other was aborted
C16_Witness ==
    \E f, g \in Flows :
        /\ flow[f].source = "ssdp"
        /\ flow[g].source = "ssdp"
        /\ flow[f].discovery_info = flow[g].discovery_info
        /\ flow[f].job.conf = flow[g].job.conf
        /\ flow[f].pc = "done"
        /\ flow[g].pc = "aborted"
        /\ flow[g].user_input # None
        /\ flow[g].result.reason = "already_configured"
        /\ Len(entries) = 1

(***************************************************************************)
(* C17.  A submission makes at most one device-configuration fetch, and a  *)
(* failed validation is not retried: once a submission has failed, the     *)
(* flow fetches again only in the validation of a new submission.          *)
(***************************************************************************)
\* flow f receives a submission in this transition
Submitted(f) ==
    /\ flow[f].pc \in {"init", "form"}
    /\ flow'[f].user_input # None
    /\ flow'[f].fetches = 0
    /\ flow'[f].job.state \in {"none", "pending"}

\* the executor runs the fetch of flow f's submission in this transition
Fetches(f) ==
    /\ flow[f].pc = "validating"
    /\ flow[f].job.state = "pending"
    /\ flow'[f].job.state = "done"
    /\ flow'[f].fetches = flow[f].fetches + 1
    /\ flow'[f].user_input = flow[f].user_input

C17_NoRetry ==
    [][\A f \in Flows :
          /\ flow'[f].fetches <= 1
          /\ flow'[f].job.state = "pending" => flow'[f].fetches = 0
          /\ (flow'[f].fetches # flow[f].fetches \/ flow'[f].job # flow[f].job)
             => Submitted(f) \/ Fetches(f)
          /\ (Failed(flow[f]) /\ flow'[f] # flow[f]) => Submitted(f)
          /\ (flow[f].pc = "validating" /\ Failed(flow'[f]))
             => /\ flow'[f].job = flow[f].job
                /\ flow'[f].fetches = 1]_vars

\* a submission has failed after its one fetch and the flow awaits input
C17_Witness ==
    \E f \in Flows :
        /\ Failed(flow[f])
        /\ flow[f].fetches = 1
        /\ flow[f].job.state = "done"
        /\ ~Validated(flow[f])
        /\ FormWithError(flow[f])

(***************************************************************************)
(* C18.  Flows are suspended in the validation fetch independently: every  *)
(* step is the step of one flow and leaves the other flows, suspended or   *)
(* not, as they are; a suspended flow changes only by its own fetch        *)
(* completing, and it resumes only when its own fetch has returned or      *)
(* raised, with the outcome of that fetch.                                 *)
(***************************************************************************)
\* the flow's executor job has been dispatched and has not completed
Suspended(fl) == fl.pc = "validating" /\ fl.job.state = "pending"

\* flow g takes a step in this transition, and it is the only one
StepsAlone(g) ==
    /\ flow'[g] # flow[g]
    /\ \A f \in Flows \ {g} : flow'[f] = flow[f]

C18_SuspendedAlone ==
    [][\A f \in Flows :
          /\ flow'[f] # flow[f] => StepsAlone(f)
          /\ (Suspended(flow[f]) /\ flow'[f] # flow[f])
             => /\ Fetches(f)
                /\ flow'[f].pc = "validating"
                /\ entries' = entries
          /\ (flow[f].pc = "validating" /\ flow'[f].pc # "validating")
             => /\ flow[f].job.state = "done"
                /\ flow[f].fetches = 1
                /\ flow[f].job.args = validate_input_begin(flow[f].user_input[1]).args
                /\ Validated(flow[f]) = (flow'[f].pc \in {"done", "aborted"})]_vars

\* a flow was submitted while the other was suspended in its fetch, and the
\* fetch of neither has completed
C18_Witness ==
    \E f, g \in Flows :
        /\ f # g
        /\ Suspended(flow[f])
        /\ Suspended(flow[g])
        /\ flow[f].fetches = 0
        /\ flow[g].fetches = 0

(***************************************************************************)
(* C19.  The prefill state of a flow is written only by that flow's own    *)
(* discovery step, from its own discovery payload: no user or import step  *)
(* and no step of another flow changes it, so every failed submission of   *)
(* a discovered flow returns the form pre-filled with the discovered host. *)
(***************************************************************************)
C19_PrefillOwned ==
    [][\A f \in Flows :
          /\ flow'[f].discovered_conf # flow[f].discovered_conf
             => /\ flow[f].pc = "init"
                /\ flow[f].discovered_conf = EmptyDict
                /\ flow'[f].source = "ssdp"
                /\ StepsAlone(f)
                /\ flow'[f].discovered_conf
                     = DiscoveredConf(
                           flow'[f].discovery_info[ATTR_UPNP_FRIENDLY_NAME],
                           ExpectedUrl(flow'[f].discovery_info[ATTR_SSDP_LOCATION]))
          /\ flow'[f].source \in {"user", "import"} => flow'[f].discovered_conf = EmptyDict
          /\ (flow'[f].source = "ssdp" /\ Failed(flow'[f]))
             => flow'[f].result.data_schema.host_default
                  = ExpectedUrl(flow'[f].discovery_info[ATTR_SSDP_LOCATION])]_vars

\* a discovered flow whose submission failed shows its discovered host,
\* beside a flow started by the user or an import that holds no prefill
C19_Witness ==
    \E f, g \in Flows :
        /\ flow[f].source = "ssdp"
        /\ Failed(flow[f])
        /\ flow[f].discovered_conf[CONF_HOST] = UrlHttp
        /\ flow[f].result.data_schema.host_default = UrlHttp
        /\ flow[f].user_input[1][CONF_HOST] = UrlFtp
        /\ flow[g].source \in {"user", "import"}
        /\ flow[g].user_input # None
        /\ flow[g].discovered_conf = EmptyDict

(***************************************************************************)
(* C20.  The user and import steps look for an entry with the device's     *)
(* unique id only after validation has succeeded: a step that received a   *)
(* submission aborts only when it resumes from the one completed fetch of  *)
(* a validated submission, and a submission whose validation fails         *)
(* (unrecognised scheme, bad credentials, no usable name, other exception) *)
(* returns the form with the corresponding error, also when the device it  *)
(* names is already configured.                                            *)
(***************************************************************************)
\* an entry stores the host of the flow's submission, or the UUID the fetch
\* of the submission returned
DeviceConfigured(fl) ==
    \/ /\ HasKeys(fl, {CONF_HOST})
       /\ \E i \in 1..Len(entries) :
             urlparse(entries[i].data[CONF_HOST]).hostname
               = urlparse(fl.user_input[1][CONF_HOST]).hostname
    \/ /\ fl.job.state = "done"
       /\ "uuid" \in DOMAIN fl.job.conf
       /\ HasEntry(fl.job.conf["uuid"])

\* the error kind of the failure of the flow's returned submission
FailureKind(fl) ==
    IF UntypedFailure(fl) THEN "unknown"
    ELSE IF SchemeOf(fl) \notin RecognizedSchemes THEN "invalid_host"
    ELSE IF fl.job.lib = "ValueError" THEN "invalid_auth"
    ELSE "cannot_connect"

C20_DedupAfterValidation ==
    [][\A f \in Flows :
          /\ (flow'[f].pc = "aborted" /\ flow'[f].user_input # None)
             => /\ Resumes(f)
                /\ flow[f].fetches = 1
                /\ Validated(flow[f])
                /\ HasEntry(flow[f].job.conf["uuid"])
                /\ flow'[f].unique_id = <<flow[f].job.conf["uuid"]>>
                /\ flow'[f].result.type = "abort"
          /\ ((Submitted(f) \/ Resumes(f)) /\ Returned(flow'[f]) /\ ~Validated(flow'[f]))
             => /\ ErrorForm(flow'[f], FailureKind(flow'[f]))
                /\ entries' = entries]_vars

\* the submission names the host of a configured device and the fetch
\* returned that device's UUID without a name: the form shows the error
C20_Witness ==
    \E f \in Flows :
        /\ Failed(flow[f])
        /\ entries # <<>>
        /\ flow[f].user_input[1] = entries[1].data
        /\ NoUsableName(flow[f].job)
        /\ "uuid" \in DOMAIN flow[f].job.conf
        /\ HasEntry(flow[f].job.conf["uuid"])
        /\ DeviceConfigured(flow[f])
        /\ ErrorForm(flow[f], "cannot_connect")

====
